---- MODULE Spec2Model ----
(***************************************************************************)
(* Model of the Ab Initio .mp documentation generator:                     *)
(*   parse_mp        (newabinitio.py; the same loop is parse_mp_file of    *)
(*                    abinitiotodoc.py and parse_mp of geminiabinitio.py)  *)
(*   topological_sort and the data-flow narrative of build_doc             *)
(*                   (newabinitio.py).                                     *)
(* Text is a sequence of one-character strings; a Python dict is an        *)
(* insertion-ordered sequence of [key, value] entries.                     *)
(***************************************************************************)
EXTENDS Integers, Sequences, FiniteSets, TLC

\* ------------------------------------------------------------------ bounds
\* number of lines of the input file
MaxLines == 4
\* number of connections handed to build_doc
MaxEdges == 3

\* ------------------------------------------------------------- characters
QUOTE == "\""
WS == {" ", "\t", "\n"}

KwGraph == <<"g", "r", "a", "p", "h">>
KwComponent == <<"c", "o", "m", "p", "o", "n", "e", "n", "t">>
KwParameter == <<"p", "a", "r", "a", "m", "e", "t", "e", "r">>
KwConnect == <<"c", "o", "n", "n", "e", "c", "t">>
KwOf == <<"o", "f">>
KwTo == <<"t", "o">>

\* Python's None and the empty string are both falsy; both are <<>> here.
None == <<>>
\* re.match returning None
NoMatch == <<>>
\* a failed position inside a match
Fail == 0

SetMin(S) == CHOOSE x \in S : \A y \in S : x <= y
SetMax(S) == CHOOSE x \in S : \A y \in S : x >= y

\* ------------------------------------------------------------ str helpers
\* str.strip(): drops leading and trailing whitespace
strip(raw) ==
    LET keep == {i \in 1..Len(raw) : raw[i] \notin WS}
    IN  IF keep = {} THEN <<>> ELSE SubSeq(raw, SetMin(keep), SetMax(keep))

\* str.startswith(prefix)
startswith(line, prefix) ==
    /\ Len(line) >= Len(prefix)
    /\ SubSeq(line, 1, Len(prefix)) = prefix

\* ----------------------------------------------------------- re fragments
\* A position is the index of the next character to read; Fail when the
\* match already failed.

\* a literal text at position p
Lit(line, p, lit) ==
    IF p # Fail /\ p + Len(lit) - 1 <= Len(line)
       /\ SubSeq(line, p, p + Len(lit) - 1) = lit
    THEN p + Len(lit) ELSE Fail

\* Mutant of Spaces: \s* in place of \s+ (whitespace made optional).
Spaces_optional(line, p) ==
    IF p = Fail THEN Fail
    ELSE SetMin({q \in p..(Len(line) + 1) :
                    q = Len(line) + 1 \/ line[q] \notin WS})

\* \s+ at position p.  Every \s+ of the four patterns is followed either by a
\* literal that is no whitespace or by a tail that matches any rest of the
\* line, so the greedy run is the one the match keeps.
Spaces(line, p) ==
    IF p = Fail \/ p > Len(line) THEN Fail
    ELSE IF line[p] \notin WS THEN Fail
    ELSE SetMin({q \in (p + 1)..(Len(line) + 1) :
                    q = Len(line) + 1 \/ line[q] \notin WS})

\* positions of a closing quote that leave a lazy group (.+?) opened at s
\* with at least one character
Closers(line, s) ==
    IF s = Fail THEN {} ELSE {e \in (s + 1)..Len(line) : line[e] = QUOTE}

\* kw\s+"  : position of the first character of the first group
OpenFirst(line, kw) == Lit(line, Spaces(line, Lit(line, 1, kw)), <<QUOTE>>)

\* re.match(r'graph\s+"(.+?)"', line)
ReGraph(line) ==
    LET s == OpenFirst(line, KwGraph)
        ends == Closers(line, s)
    IN  IF ends = {} THEN NoMatch ELSE <<SubSeq(line, s, SetMin(ends) - 1)>>

\* re.match(r'kw\s+"(.+?)"\s+mid\s+"(.+?)"', line): the first group is the
\* shortest for which the rest matches, then the second is the shortest.
ReLink(line, kw, mid) ==
    LET s1 == OpenFirst(line, kw)
        Open2(e1) == Lit(line, Spaces(line, Lit(line, Spaces(line, e1 + 1), mid)),
                         <<QUOTE>>)
        ends1 == {e1 \in Closers(line, s1) : Closers(line, Open2(e1)) # {}}
    IN  IF ends1 = {} THEN NoMatch
        ELSE LET e1 == SetMin(ends1)
                 s2 == Open2(e1)
             IN  <<SubSeq(line, s1, e1 - 1),
                   SubSeq(line, s2, SetMin(Closers(line, s2)) - 1)>>

\* re.match(r'component\s+"(.+?)"\s+of\s+"(.+?)"', line)
ReComponent(line) == ReLink(line, KwComponent, KwOf)

\* re.match(r'connect\s+"(.+?)"\s+to\s+"(.+?)"', line)
ReConnect(line) == ReLink(line, KwConnect, KwTo)

\* the tails "?;?$ can match
ParamTails == {<<>>, <<QUOTE>>, <<";">>, <<QUOTE, ";">>}

\* re.match(r'parameter\s+"(.+?)"\s+=\s+"?(.*?)"?;?$', line)
ReParameter(line) ==
    LET s1 == OpenFirst(line, KwParameter)
        Value(e1) == Spaces(line, Lit(line, Spaces(line, e1 + 1), <<"=">>))
        ends1 == {e1 \in Closers(line, s1) : Value(e1) # Fail}
    IN  IF ends1 = {} THEN NoMatch
        ELSE LET e1 == SetMin(ends1)
                 v == Value(e1)
                 s2 == IF v <= Len(line) /\ line[v] = QUOTE THEN v + 1 ELSE v
                 e2 == SetMin({g \in s2..(Len(line) + 1) :
                                  SubSeq(line, g, Len(line)) \in ParamTails})
             IN  <<SubSeq(line, s1, e1 - 1), SubSeq(line, s2, e2 - 1)>>

\* ------------------------------------------------------------------- dict
\* a dict is the sequence of its entries in insertion order

\* k in d
DictHas(d, k) == \E i \in 1..Len(d) : d[i].key = k

\* d[k] for a key that is present
DictGet(d, k) == d[CHOOSE i \in 1..Len(d) : d[i].key = k].value

\* d.keys(), in insertion order
DictKeys(d) == [i \in 1..Len(d) |-> d[i].key]

\* Mutant of DictSet: the key is deleted and inserted again, so a key that
\* is set again moves to the end.
DictSet_moveToEnd(d, k, v) ==
    Append(SelectSeq(d, LAMBDA x : x.key # k), [key |-> k, value |-> v])

\* d[k] = v: an existing key keeps its position, a new key goes to the end
DictSet(d, k, v) ==
    IF DictHas(d, k)
    THEN [i \in 1..Len(d) |-> IF d[i].key = k THEN [key |-> k, value |-> v] ELSE d[i]]
    ELSE Append(d, [key |-> k, value |-> v])

\* defaultdict(list)[k]
ListOf(d, k) == IF DictHas(d, k) THEN DictGet(d, k) ELSE <<>>

\* ------------------------------------------------------------- input lines
Quoted(s) == <<QUOTE>> \o s \o <<QUOTE>>
SP == <<" ">>
NL == <<"\n">>

\* The raw lines a file is made of (each as the file iterator yields it,
\* with its newline).
RawLines == <<
    KwGraph \o SP \o Quoted(<<"G">>) \o NL,
    KwComponent \o SP \o Quoted(<<"A">>) \o SP \o KwOf \o SP \o Quoted(<<"x">>) \o NL,
    KwComponent \o SP \o Quoted(<<"A">>) \o SP \o KwOf \o SP \o Quoted(<<"y">>) \o NL,
    <<"\t">> \o KwComponent \o SP \o SP \o Quoted(<<"B">>) \o SP \o KwOf \o <<"\t">>
        \o Quoted(<<"x">>) \o SP \o NL,
    KwParameter \o SP \o Quoted(<<"p">>) \o SP \o <<"=">> \o SP \o Quoted(<<"1">>)
        \o <<";">> \o NL,
    KwParameter \o SP \o Quoted(<<"p">>) \o SP \o <<"=">> \o SP \o <<"2">> \o NL,
    KwParameter \o SP \o Quoted(<<"q">>) \o SP \o <<"=">> \o SP \o Quoted(<<"1">>) \o NL,
    KwConnect \o SP \o Quoted(<<"A">>) \o SP \o KwTo \o SP \o Quoted(<<"B">>) \o NL,
    KwConnect \o SP \o Quoted(<<"Z">>) \o SP \o KwTo \o SP \o Quoted(<<"A">>) \o NL,
    KwComponent \o SP \o Quoted(<<"B">>) \o NL,
    KwParameter \o SP \o Quoted(<<"q">>) \o SP \o <<"=">> \o Quoted(<<"1">>) \o <<";">> \o NL,
    <<"#">> \o SP \o <<"x">> \o NL
>>

LineIds == 1..Len(RawLines)

\* line = raw.strip(), and the four matches, per raw line
Stripped == [i \in LineIds |-> strip(RawLines[i])]
GraphMatch == [i \in LineIds |-> ReGraph(Stripped[i])]
ComponentMatch == [i \in LineIds |-> ReComponent(Stripped[i])]
ParameterMatch == [i \in LineIds |-> ReParameter(Stripped[i])]
ConnectMatch == [i \in LineIds |-> ReConnect(Stripped[i])]

\* ------------------------------------------------------------------ state
VARIABLES
    pc,           \* where main is
    fh,           \* the ids of the raw lines read from the file so far
    graph_name,   \* graph["graph_name"]
    components,   \* graph["components"]
    connections,  \* graph["connections"]
    current,      \* the parse cursor
    nodes,        \* topological_sort: argument
    edges,        \* topological_sort: argument
    ei,           \* topological_sort: index of the next edge to count
    out_edges,    \* topological_sort: defaultdict(list)
    indeg,        \* topological_sort: dict
    q,            \* topological_sort: deque
    order,        \* topological_sort: result under construction
    n,            \* topological_sort: node popped last
    mi,           \* topological_sort: index of the next successor of n
    ordered,      \* build_doc: the value topological_sort returned
    ci,           \* build_doc: index of the next component of the narrative
    outs          \* build_doc: the targets listed for the component before ci

graphVars == <<graph_name, components, connections>>
sortVars == <<nodes, edges, ei, out_edges, indeg, q, order, n, mi>>
docVars == <<ordered, ci, outs>>
vars == <<pc, fh, graph_name, components, connections, current, nodes, edges, ei,
          out_edges, indeg, q, order, n, mi, ordered, ci, outs>>

\* locals of topological_sort and build_doc before they are assigned
SortIdle ==
    /\ nodes = <<>> /\ edges = <<>> /\ ei = 0 /\ out_edges = <<>> /\ indeg = <<>>
    /\ q = <<>> /\ order = <<>> /\ n = None /\ mi = 0
DocIdle == ordered = <<>> /\ ci = 0 /\ outs = <<>>

\* main() calls parse_mp: graph = {"graph_name": "", "components": {},
\* "connections": []}; current = None
Init ==
    /\ pc = "parse"
    /\ fh = <<>>
    /\ graph_name = <<>>
    /\ components = <<>>
    /\ connections = <<>>
    /\ current = None
    /\ SortIdle
    /\ DocIdle

\* --------------------------------------------------------------- parse_mp
\* the branch of the if/elif chain a line takes
Branch(line, cur) ==
    IF startswith(line, KwGraph) THEN "graph"
    ELSE IF startswith(line, KwComponent) THEN "component"
    ELSE IF startswith(line, KwParameter) /\ cur # None THEN "parameter"
    ELSE IF startswith(line, KwConnect) THEN "connect"
    ELSE "none"

\* Mutant of DeclareComponent: a declared name keeps the parameters it has.
DeclareComponent_keepParameters(comps, name, ctype) ==
    DictSet(comps, name,
            [type |-> ctype,
             parameters |-> IF DictHas(comps, name)
                            THEN DictGet(comps, name).parameters ELSE <<>>])

\* graph["components"][name] = {"type": ctype, "parameters": {}}
DeclareComponent(comps, name, ctype) ==
    DictSet(comps, name, [type |-> ctype, parameters |-> <<>>])

\* Mutant of AssignParameter: the parameter goes to the component added to
\* components last, not to the cursor.
AssignParameter_lastAdded(comps, cur, pname, pval) ==
    LET last == comps[Len(comps)]
    IN  DictSet(comps, last.key,
                [last.value EXCEPT
                    !.parameters = DictSet(last.value.parameters, pname, pval)])

\* graph["components"][current]["parameters"][pname] = pval
AssignParameter(comps, cur, pname, pval) ==
    LET meta == DictGet(comps, cur)
    IN  DictSet(comps, cur,
                [meta EXCEPT !.parameters = DictSet(meta.parameters, pname, pval)])

\* Mutant of AppendConnection: a connection already listed is not added.
AppendConnection_unique(conns, src, dst) ==
    IF \E k \in 1..Len(conns) : conns[k] = <<src, dst>> THEN conns
    ELSE Append(conns, <<src, dst>>)

\* graph["connections"].append(m.groups())
AppendConnection(conns, src, dst) == Append(conns, <<src, dst>>)

\* the file has another line to read
Reading(i) ==
    /\ pc = "parse"
    /\ Len(fh) < MaxLines
    /\ fh' = Append(fh, i)
    /\ pc' = pc
    /\ UNCHANGED <<sortVars, docVars>>

GraphLine(i) ==
    /\ Reading(i)
    /\ Branch(Stripped[i], current) = "graph"
    /\ graph_name' = IF GraphMatch[i] # NoMatch THEN GraphMatch[i][1] ELSE graph_name
    /\ UNCHANGED <<components, connections, current>>

ComponentLine(i) ==
    /\ Reading(i)
    /\ Branch(Stripped[i], current) = "component"
    /\ LET m == ComponentMatch[i]
       IN  IF m # NoMatch
           THEN /\ components' = DeclareComponent(components, m[1], m[2])
                /\ current' = m[1]
           ELSE UNCHANGED <<components, current>>
    /\ UNCHANGED <<graph_name, connections>>

ParameterLine(i) ==
    /\ Reading(i)
    /\ Branch(Stripped[i], current) = "parameter"
    /\ LET m == ParameterMatch[i]
       IN  IF m # NoMatch
           THEN components' = AssignParameter(components, current, m[1], m[2])
           ELSE UNCHANGED components
    /\ UNCHANGED <<graph_name, connections, current>>

ConnectLine(i) ==
    /\ Reading(i)
    /\ Branch(Stripped[i], current) = "connect"
    /\ LET m == ConnectMatch[i]
       IN  IF m # NoMatch
           THEN connections' = AppendConnection(connections, m[1], m[2])
           ELSE UNCHANGED connections
    /\ UNCHANGED <<graph_name, components, current>>

OtherLine(i) ==
    /\ Reading(i)
    /\ Branch(Stripped[i], current) = "none"
    /\ UNCHANGED <<graph_name, components, connections, current>>

\* end of file: parse_mp returns graph and main calls build_doc
EndOfFile ==
    /\ pc = "parse"
    /\ pc' = "build_doc"
    /\ UNCHANGED <<fh, graphVars, current, sortVars, docVars>>

\* ------------------------------------------------------- topological_sort
\* indeg = {n: 0 for n in nodes}
ZeroDegrees(ns) == [i \in 1..Len(ns) |-> [key |-> ns[i], value |-> 0]]

\* Mutant of AddOutEdge: the target is put in front of the list.
AddOutEdge_prepend(oe, src, dst) == DictSet(oe, src, <<dst>> \o ListOf(oe, src))

\* out_edges[src].append(dst)
AddOutEdge(oe, src, dst) == DictSet(oe, src, Append(ListOf(oe, src), dst))

\* [n for n in nodes if indeg[n] == 0]
ZeroNodes(ns, deg) == SelectSeq(ns, LAMBDA x : DictGet(deg, x) = 0)

\* Mutant of OrderOrFallback: the partial order is returned as it is.
OrderOrFallback_noFallback(ord, ns) == ord

\* order if len(order) == len(nodes) else list(nodes)
OrderOrFallback(ord, ns) == IF Len(ord) = Len(ns) THEN ord ELSE ns

\* build_doc: ordered = topological_sort(graph["components"].keys(),
\* graph["connections"]); out_edges and indeg are created
CallTopologicalSort ==
    /\ pc = "build_doc"
    /\ nodes' = DictKeys(components)
    /\ edges' = connections
    /\ out_edges' = <<>>
    /\ indeg' = ZeroDegrees(DictKeys(components))
    /\ ei' = 1
    /\ pc' = "count"
    /\ UNCHANGED <<fh, graphVars, current, q, order, n, mi, docVars>>

\* for src, dst in edges: one edge whose target has an in-degree entry
CountEdge ==
    /\ pc = "count"
    /\ ei <= Len(edges)
    /\ DictHas(indeg, edges[ei][2])
    /\ out_edges' = AddOutEdge(out_edges, edges[ei][1], edges[ei][2])
    /\ indeg' = DictSet(indeg, edges[ei][2], DictGet(indeg, edges[ei][2]) + 1)
    /\ ei' = ei + 1
    /\ UNCHANGED <<pc, fh, graphVars, current, nodes, edges, q, order, n, mi, docVars>>

\* for src, dst in edges: indeg[dst] += 1 raises KeyError for a target that is
\* no key of indeg; nothing catches it, so the program ends
CountEdgeKeyError ==
    /\ pc = "count"
    /\ ei <= Len(edges)
    /\ ~DictHas(indeg, edges[ei][2])
    /\ out_edges' = AddOutEdge(out_edges, edges[ei][1], edges[ei][2])
    /\ pc' = "KeyError"
    /\ UNCHANGED <<fh, graphVars, current, nodes, edges, ei, indeg, q, order, n, mi,
                   docVars>>

\* q = deque([n for n in nodes if indeg[n] == 0]); order = []
SeedQueue ==
    /\ pc = "count"
    /\ ei > Len(edges)
    /\ q' = ZeroNodes(nodes, indeg)
    /\ order' = <<>>
    /\ pc' = "while"
    /\ UNCHANGED <<fh, graphVars, current, nodes, edges, ei, out_edges, indeg, n, mi,
                   docVars>>

\* while q: n = q.popleft(); order.append(n); the for loop over out_edges[n]
\* starts (reading out_edges[n] creates the entry of a node without one)
PopNode ==
    /\ pc = "while"
    /\ q # <<>>
    /\ n' = Head(q)
    /\ q' = Tail(q)
    /\ order' = Append(order, Head(q))
    /\ out_edges' = IF DictHas(out_edges, Head(q)) THEN out_edges
                    ELSE DictSet(out_edges, Head(q), <<>>)
    /\ mi' = 1
    /\ pc' = IF ListOf(out_edges, Head(q)) = <<>> THEN "while" ELSE "for"
    /\ UNCHANGED <<fh, graphVars, current, nodes, edges, ei, indeg, docVars>>

\* for m in out_edges[n]: indeg[m] -= 1; if indeg[m] == 0: q.append(m)
VisitSuccessor ==
    /\ pc = "for"
    /\ LET m == DictGet(out_edges, n)[mi]
           d == DictGet(indeg, m) - 1
       IN  /\ indeg' = DictSet(indeg, m, d)
           /\ q' = IF d = 0 THEN Append(q, m) ELSE q
    /\ mi' = mi + 1
    /\ pc' = IF mi = Len(DictGet(out_edges, n)) THEN "while" ELSE "for"
    /\ UNCHANGED <<fh, graphVars, current, nodes, edges, ei, out_edges, order, n,
                   docVars>>

\* return order if len(order) == len(nodes) else list(nodes); build_doc
\* starts the narrative loop over the returned list
ReturnOrder ==
    /\ pc = "while"
    /\ q = <<>>
    /\ ordered' = OrderOrFallback(order, nodes)
    /\ ci' = 1
    /\ pc' = "narrative"
    /\ UNCHANGED <<fh, graphVars, current, sortVars, outs>>

\* -------------------------------------------------------------- build_doc
\* Mutant of Outs: source and target swapped.
Outs_swapped(conns, comp) ==
    LET into == SelectSeq(conns, LAMBDA e : e[2] = comp)
    IN  [i \in 1..Len(into) |-> into[i][1]]

\* outs = [dst for src, dst in graph["connections"] if src == comp]
Outs(conns, comp) ==
    LET from == SelectSeq(conns, LAMBDA e : e[1] = comp)
    IN  [i \in 1..Len(from) |-> from[i][2]]

\* for i, comp in enumerate(ordered, 1): one component of the narrative
NarrativeStep ==
    /\ pc = "narrative"
    /\ ci <= Len(ordered)
    /\ outs' = Outs(connections, ordered[ci])
    /\ ci' = ci + 1
    /\ UNCHANGED <<pc, fh, graphVars, current, sortVars, ordered>>

\* --------------------------------------------------------- specifications
ReadLine ==
    \E i \in LineIds :
        \/ GraphLine(i)
        \/ ComponentLine(i)
        \/ ParameterLine(i)
        \/ ConnectLine(i)
        \/ OtherLine(i)

BuildDoc ==
    \/ CallTopologicalSort
    \/ CountEdge
    \/ CountEdgeKeyError
    \/ SeedQueue
    \/ PopNode
    \/ VisitSuccessor
    \/ ReturnOrder
    \/ NarrativeStep

\* main(): parse_mp on a file of at most MaxLines lines, then build_doc
Next == ReadLine \/ EndOfFile \/ BuildDoc

Spec == Init /\ [][Next]_vars

\* build_doc called on a graph: the component names a graph can hold, up to
\* renaming, in every declaration order, and every list of connections over
\* them and one name that is never declared
NodeNames == {<<"A">>, <<"B">>, <<"C">>}
EdgeNames == NodeNames \cup {<<"Z">>}

RECURSIVE SeqsUpTo(_, _)
SeqsUpTo(S, k) ==
    IF k = 0 THEN {<<>>}
    ELSE LET shorter == SeqsUpTo(S, k - 1)
         IN  shorter \cup {Append(s, x) : s \in shorter, x \in S}

KeyOrders == {<<>>, <<<<"A">>>>, <<<<"A">>, <<"B">>>>, <<<<"A">>, <<"B">>, <<"C">>>>}

DocInit ==
    /\ pc = "build_doc"
    /\ fh = <<>>
    /\ graph_name = <<>>
    /\ current = None
    /\ \E ks \in KeyOrders :
           components = [i \in 1..Len(ks) |->
                            [key |-> ks[i],
                             value |-> [type |-> <<"x">>, parameters |-> <<>>]]]
    /\ connections \in SeqsUpTo(EdgeNames \X EdgeNames, MaxEdges)
    /\ SortIdle
    /\ DocIdle

DocSpec == DocInit /\ [][BuildDoc]_vars

\* ===================================================================== claims
\* What each raw line says, read by the four statement shapes of the format
\*   graph "<name>" / component "<name>" of "<type>" /
\*   parameter "<name>" = "<value>"; (quotes of the value and the semicolon
\*   optional) / connect "<src>" to "<dst>"
\* written down per line, not computed by the matcher.
Statement(kind, a, b) == [kind |-> kind, a |-> a, b |-> b]
Shape == <<
    Statement("graph", <<"G">>, <<>>),
    Statement("component", <<"A">>, <<"x">>),
    Statement("component", <<"A">>, <<"y">>),
    Statement("component", <<"B">>, <<"x">>),
    Statement("parameter", <<"p">>, <<"1">>),
    Statement("parameter", <<"p">>, <<"2">>),
    Statement("parameter", <<"q">>, <<"1">>),
    Statement("connect", <<"A">>, <<"B">>),
    Statement("connect", <<"Z">>, <<"A">>),
    Statement("none", <<>>, <<>>),
    Statement("none", <<>>, <<>>),
    Statement("none", <<>>, <<>>)
>>

\* the statement read at position k of the file
Read(k) == Shape[fh[k]]
\* positions of the component declarations read so far, and those of a name
Decls == {k \in 1..Len(fh) : Read(k).kind = "component"}
DeclsOf(name) == {k \in Decls : Read(k).a = name}
DeclaredNames == {Read(k).a : k \in Decls}
\* positions of the parameter lines that follow the last declaration of name
\* with no other declaration in between
Window(name) ==
    LET last == SetMax(DeclsOf(name))
    IN  {k \in (last + 1)..Len(fh) :
            /\ Read(k).kind = "parameter"
            /\ \A j \in (last + 1)..k : Read(j).kind # "component"}
\* the entries of a dict as a set of pairs
Pairs(d) == {<<d[i].key, d[i].value>> : i \in 1..Len(d)}
\* the set of positions of key k in dict d
Slots(d, k) == {i \in 1..Len(d) : d[i].key = k}

\* topological_sort has ended, by returning or by raising
SortEnded == pc \in {"narrative", "KeyError"}
\* the names that are keys of graph["components"]
Declared == {components[i].key : i \in 1..Len(components)}
\* the connections between two declared components
InnerEdges == {k \in 1..Len(connections) :
                  connections[k][1] \in Declared /\ connections[k][2] \in Declared}
\* a cycle among declared components: a non-empty set of them in which every
\* member has a connection to a member
Cyclic ==
    \E C \in SUBSET Declared :
        /\ C # {}
        /\ \A x \in C : \E k \in InnerEdges :
               connections[k][1] = x /\ connections[k][2] \in C
\* position of a declared name in the returned list
PosIn(seq, x) == CHOOSE i \in 1..Len(seq) : seq[i] = x

\* C1: for every graph extraction can produce, topological_sort returns a
\* sequence whose length is the number of declared components.
\* (Refuted: a connection to an undeclared target ends it with KeyError.)
C1_SequenceLength ==
    SortEnded => (pc = "narrative" /\ Len(ordered) = Len(components))

\* C2: when the connections between declared components have no cycle, the
\* returned sequence puts the source of every such connection before its
\* target.  (Refuted: a connection from an undeclared source keeps its target
\* from ever reaching in-degree zero and the declaration order is returned.)
C2_TopologicalOrder ==
    (pc = "narrative" /\ ~Cyclic) =>
        \A k \in InnerEdges :
            PosIn(ordered, connections[k][1]) < PosIn(ordered, connections[k][2])

\* C3: when the connections between declared components have a cycle,
\* topological_sort returns the components in declaration order and raises
\* nothing.  (Refuted only through the KeyError of C4.)
C3_CycleFallback ==
    (SortEnded /\ Cyclic) => (pc = "narrative" /\ ordered = DictKeys(components))

\* C4: with a connection whose source or target is no declared component,
\* topological_sort still completes normally.  (Refuted: KeyError.)
C4_DanglingTolerated ==
    (\E k \in 1..Len(connections) :
        connections[k][1] \notin Declared \/ connections[k][2] \notin Declared)
    => pc # "KeyError"

\* C5: last declaration wins.  After any sequence of lines, every declared
\* name has exactly one entry in components (and nothing else has one), its
\* type is that of its last declaration, and its parameters are exactly the
\* ones assigned after that declaration, each with the value assigned last.
C5_LastDeclarationWins ==
    /\ Declared = DeclaredNames
    /\ \A name \in DeclaredNames :
           /\ Cardinality(Slots(components, name)) = 1
           /\ LET meta == components[CHOOSE i \in Slots(components, name) : TRUE].value
                  W == Window(name)
                  final == {k \in W : \A k2 \in W : Read(k2).a = Read(k).a => k2 <= k}
              IN  /\ meta.type = Read(SetMax(DeclsOf(name))).b
                  /\ Pairs(meta.parameters) = {<<Read(k).a, Read(k).b>> : k \in final}
                  /\ Len(meta.parameters) = Cardinality(final)

\* a name declared twice with different types, a parameter assigned between
\* the two declarations and another after the second
C5_Witness ==
    \E name \in DeclaredNames :
        LET first == SetMin(DeclsOf(name))
            last == SetMax(DeclsOf(name))
        IN  /\ Read(first).b # Read(last).b
            /\ \E k \in (first + 1)..(last - 1) : Read(k).kind = "parameter"
            /\ Window(name) # {}

\* C6: a well-formed connect line appends (src, dst) to the end of
\* connections whatever is declared and whatever is already listed, and leaves
\* the graph name, the components with their parameters and the cursor as
\* they were.
C6_ConnectAppends ==
    [][\A i \in LineIds :
          (pc = "parse" /\ fh' = Append(fh, i) /\ Shape[i].kind = "connect") =>
              /\ connections' = Append(connections, <<Shape[i].a, Shape[i].b>>)
              /\ UNCHANGED <<graph_name, components, current>>]_vars

\* the same connection listed twice, its target undeclared, while a
\* component is declared
C6_Witness ==
    /\ Len(fh) > 0 /\ Read(Len(fh)).kind = "connect"
    /\ components # <<>>
    /\ \E j, k \in 1..Len(connections) :
           /\ j < k
           /\ connections[j] = connections[k]
           /\ connections[k][2] \notin Declared

\* the line starts with one of the four keywords
KeywordLine(i) ==
    \E kw \in {KwGraph, KwComponent, KwParameter, KwConnect} : startswith(Stripped[i], kw)

\* C7: a line that matches none of the four shapes, also one that starts with
\* a keyword, changes neither the graph name, the components, the connections
\* nor the cursor (nor where the parser is), so the lines after it are
\* processed from the state they would be processed from without it.
C7_MalformedInert ==
    [][\A i \in LineIds :
          (pc = "parse" /\ fh' = Append(fh, i) /\ Shape[i].kind = "none") =>
              UNCHANGED <<pc, graph_name, components, connections, current>>]_vars

\* a malformed keyword line read while a component is current, and a
\* parameter line after it that reached a component
C7_Witness ==
    /\ Len(fh) >= 3
    /\ Read(Len(fh)).kind = "parameter"
    /\ \E i \in 1..Len(components) :
           <<Read(Len(fh)).a, Read(Len(fh)).b>> \in Pairs(components[i].value.parameters)
    /\ \E k \in 2..(Len(fh) - 1) :
           /\ Read(k).kind = "none"
           /\ KeywordLine(fh[k])
           /\ \E j \in Decls : j < k

\* C8: a well-formed parameter line changes the parameters of exactly the
\* component named by the last component declaration read before it (its
\* name gets the value, nothing else of it changes) and no other component,
\* nor the graph name, the connections or the cursor; before any component
\* declaration it changes nothing.
C8_ParameterToCurrent ==
    [][\A i \in LineIds :
          (pc = "parse" /\ fh' = Append(fh, i) /\ Shape[i].kind = "parameter") =>
              /\ UNCHANGED <<graph_name, connections, current>>
              /\ IF Decls = {} THEN components' = components
                 ELSE LET target == Read(SetMax(Decls)).a
                      IN  /\ DictKeys(components') = DictKeys(components)
                          /\ \A j \in 1..Len(components) :
                                 IF components[j].key # target
                                 THEN components'[j] = components[j]
                                 ELSE /\ components'[j].value.type = components[j].value.type
                                      /\ Pairs(components'[j].value.parameters) =
                                             {pr \in Pairs(components[j].value.parameters) :
                                                 pr[1] # Shape[i].a}
                                             \cup {<<Shape[i].a, Shape[i].b>>}]_vars

\* two components, each holding a parameter of its own, the last line read
\* being a parameter line
C8_Witness ==
    /\ Len(fh) > 0 /\ Read(Len(fh)).kind = "parameter"
    /\ Len(components) = 2
    /\ components[1].value.parameters # <<>>
    /\ components[2].value.parameters # <<>>
    /\ components[1].value.parameters # components[2].value.parameters

\* list holds exactly the targets of the connections whose source is name,
\* in the order of connections, one per connection
SuccessorsOf(list, name) ==
    LET from == {k \in 1..Len(connections) : connections[k][1] = name}
    IN  /\ Len(list) = Cardinality(from)
        /\ \A k \in from :
               list[Cardinality({k2 \in from : k2 <= k})] = connections[k][2]

\* C9: the successor lookup of any name, declared or not, is the list of the
\* targets of the connections from that name, in connection order with
\* duplicates kept; the list the narrative shows for a component is that
\* list, whether the order came from the queue or from the fallback.
C9_SuccessorLookup ==
    /\ \A name \in EdgeNames : SuccessorsOf(Outs(connections, name), name)
    /\ (pc = "narrative" /\ ci > 1) => SuccessorsOf(outs, ordered[ci - 1])

\* the narrative follows the fallback order, a connection leaves an
\* undeclared name, and the component shown last has the same target twice
C9_Witness ==
    /\ pc = "narrative" /\ ci > 1
    /\ Len(order) < Len(nodes)
    /\ \E k \in 1..Len(connections) : connections[k][1] \notin Declared
    /\ Len(outs) >= 2 /\ outs[1] = outs[2]

\* C10: components are in the order of the first declaration of each name,
\* and the parameters of a component are in the order of the first
\* assignment of each parameter name since the component's last declaration,
\* each holding the value assigned last.
C10_FirstDeclarationOrder ==
    /\ Declared = DeclaredNames
    /\ \A i, j \in 1..Len(components) :
           i < j => SetMin(DeclsOf(components[i].key)) < SetMin(DeclsOf(components[j].key))
    /\ \A i \in 1..Len(components) :
           LET ps == components[i].value.parameters
               W == Window(components[i].key)
               Assigns(pn) == {k \in W : Read(k).a = pn}
           IN  /\ {ps[x].key : x \in 1..Len(ps)} = {Read(k).a : k \in W}
               /\ \A x, y \in 1..Len(ps) :
                      x < y => SetMin(Assigns(ps[x].key)) < SetMin(Assigns(ps[y].key))
               /\ \A x \in 1..Len(ps) : ps[x].value = Read(SetMax(Assigns(ps[x].key))).b

\* a name declared again after another name was declared: it stays first
C10_Witness ==
    /\ Len(components) = 2
    /\ SetMax(DeclsOf(components[1].key)) > SetMin(DeclsOf(components[2].key))

\* a parameter assigned again after another parameter was assigned: it stays
\* first and holds the later value
C10_WitnessParameters ==
    \E i \in 1..Len(components) :
        LET ps == components[i].value.parameters
            W == Window(components[i].key)
        IN  /\ Len(ps) = 2
            /\ \E k1, k2, k3 \in W :
                   /\ k1 < k2 /\ k2 < k3
                   /\ Read(k1).a = ps[1].key /\ Read(k2).a = ps[2].key
                   /\ Read(k3).a = ps[1].key /\ Read(k3).b # Read(k1).b

\* topological_sort returned the order the queue produced, not the fallback
ByQueue == pc = "narrative" /\ Len(order) = Len(nodes)
\* the declared components no connection points to
Sources == {x \in Declared : \A k \in 1..Len(connections) : connections[k][2] # x}
\* the connections that point to x
Incoming(x) == {k \in 1..Len(connections) : connections[k][2] = x}
\* connection j is visited before connection k: its source is earlier in the
\* returned order, or they share the source and j is listed first
VisitedBefore(j, k) ==
    LET pj == PosIn(ordered, connections[j][1])
        pk == PosIn(ordered, connections[k][1])
    IN  pj < pk \/ (pj = pk /\ j < k)
\* the connection whose visit brings x to in-degree zero: the one of its
\* incoming connections that is visited last
Release(x) ==
    CHOOSE k \in Incoming(x) : \A j \in Incoming(x) : j = k \/ VisitedBefore(j, k)

\* C11: when the order of the queue is returned, it starts with the declared
\* components of in-degree zero in declaration order, and the other
\* components follow in the order in which the visit of their last incoming
\* connection released them (nodes visited in the returned order, the
\* connections of one node in the order they are listed); every connection
\* then joins two declared components.
C11_QueueOrder ==
    ByQueue =>
        /\ \A k \in 1..Len(connections) :
               connections[k][1] \in Declared /\ connections[k][2] \in Declared
        /\ LET s == Cardinality(Sources)
           IN  /\ SubSeq(ordered, 1, s)
                      = SelectSeq(DictKeys(components), LAMBDA x : x \in Sources)
               /\ \A i, j \in (s + 1)..Len(ordered) :
                      i < j => VisitedBefore(Release(ordered[i]), Release(ordered[j]))

\* three components returned by the queue in an order that is not the
\* declaration order: one source releases the two others, the one declared
\* later first
C11_Witness ==
    /\ ByQueue
    /\ Len(ordered) = 3
    /\ Cardinality(Sources) = 1
    /\ ordered # DictKeys(components)
    /\ Release(ordered[2]) < Release(ordered[3])
    /\ connections[Release(ordered[2])][1] = connections[Release(ordered[3])][1]

\* the names of a sequence occur once each
NoRepeat(seq) == \A i, j \in 1..Len(seq) : i # j => seq[i] # seq[j]

\* C12: while topological_sort runs no in-degree is below zero and no
\* component is in the queue or the order twice (nor any undeclared name at
\* all), and the sequence it returns holds every declared component exactly
\* once and nothing else, duplicate connections included.
C12_Permutation ==
    /\ \A i \in 1..Len(indeg) : indeg[i].value >= 0
    /\ NoRepeat(order \o q)
    /\ \A i \in 1..Len(order \o q) : (order \o q)[i] \in Declared
    /\ pc = "narrative" =>
           /\ Len(ordered) = Len(components)
           /\ NoRepeat(ordered)
           /\ {ordered[i] : i \in 1..Len(ordered)} = Declared

\* the queue's order of two or more components is returned for a graph
\* that lists a connection twice
C12_Witness ==
    /\ ByQueue
    /\ Len(ordered) >= 2
    /\ \E j, k \in 1..Len(connections) : j < k /\ connections[j] = connections[k]

====
